---- MODULE Spec2Model ----
(***************************************************************************)
(* Model of backend/src/app.py: the gradient-noise generator (lerp, fade,  *)
(* gradient, generate_perlin_noise) and the classification loop of the     *)
(* /generate_world route.                                                  *)
(*                                                                         *)
(* Numbers.  The program computes in binary floating point.  The model     *)
(* draws scale from {0, 1, 2, 4}, takes persistence = 0.5 and              *)
(* lacunarity = 2.0 (the defaults of generate_perlin_noise), and keeps     *)
(* every value as an integer numerator over a fixed power-of-two           *)
(* denominator.  For these arguments every intermediate value of the       *)
(* accumulation is a dyadic rational of fewer than 53 significant bits,    *)
(* so the program's double arithmetic is exact and the model's numerators  *)
(* are the program's values.  A rescaled cell is the exact quotient        *)
(* <<num, den>>; the program holds its correctly rounded double.  Rounding *)
(* is monotone, the quotients 0, 1 and 1/2 are exact, and a quotient with  *)
(* den < 2^31 other than 2/5 (7/10) is further from 2/5 (7/10) than a      *)
(* double's rounding error, so the program's comparisons with the          *)
(* literals 0.4 and 0.7 come out as the exact comparisons with 2/5 and     *)
(* 7/10.  The route passes scale=30.0 and persistence=0.01, which are not  *)
(* dyadic: the model runs the route's call at scale 4 and persistence 0.5. *)
(*                                                                         *)
(* The generator.  random.seed(a) overwrites the whole state of the        *)
(* module-level Mersenne Twister with a function of abs(a), and            *)
(* random.randint(0, 7) draws 4 bits at a time from that state, advancing  *)
(* it, until the draw is below 8.  The model keeps this structure over a   *)
(* state of RngMod values: seeding mixes abs(a) into a state, a draw is    *)
(* one step of a full-period linear congruential generator.                *)
(***************************************************************************)
EXTENDS Integers, Sequences, FiniteSets, TLC

\* ------------------------------------------------------------------ bounds
MaxSize == 3
MaxOctaves == 2
MaxSeed == 1
MaxCalls == 2
AnyMaxCells == 4
FieldMaxCells == 4
FieldMaxRaw == 10

\* --------------------------------------------------------------- constants
\* Sample coordinates are kept in units of 1/CoordDen.
CoordDen == 2 * 2
\* The scales the model draws: 0 (invalid) and the divisors of CoordDen.
Scales == {0, 1, 2, CoordDen}
\* lacunarity=2.0 (default, and what the route passes).
Lacunarity == 2
\* persistence=0.5 (default) as PersNum / PersDen.
PersNum == 1
PersDen == 2
\* octaves=4 as passed by the route.
RouteOctaves == 4
\* The scale of the route's call (see above).
RouteScale == CoordDen
\* len(gradients)
NGradients == 8
\* Mixing factors of the per-corner seed.
MixX == 100000
MixY == 1000
\* The stand-in generator: state in 0..RngMod-1, 4 output bits per draw.
RngMod == 16
RngMul == 5
RngInc == 3
RngBits == 4

Abs(a) == IF a < 0 THEN -a ELSE a

\* ----------------------------------------------------------------- helpers
\* lerp(a, b, x) with a, b numerators over some D and x a numerator over
\* xden: the result is a numerator over D * xden.
lerp(a, b, x, xden) == a * xden + x * (b - a)

\* Denominator of fade's result.
FadeDen == CoordDen ^ 5

\* fade(t) for t = k / CoordDen, as a numerator over FadeDen.
fade(k) == k * k * k * (k * (k * 6 - 15 * CoordDen) + 10 * CoordDen * CoordDen)

\* Denominator of one octave's interpolated value.
OctDen == CoordDen * FadeDen * FadeDen

\* random.seed(a): the new state depends on abs(a) alone.
random_seed(a) == (Abs(a) + Abs(a) \div MixY + Abs(a) \div MixX) % RngMod

\* One step of the generator; the draw is the top RngBits bits of the state.
getrandbits(s) ==
  LET s1 == (RngMul * s + RngInc) % RngMod
  IN [r |-> s1 \div (RngMod \div (2 ^ RngBits)), rng |-> s1]

\* random.randint(0, n - 1) = _randbelow(n): draw n.bit_length() bits until
\* the draw is below n.
RECURSIVE randbelow(_, _)
randbelow(s, n) ==
  LET d == getrandbits(s)
  IN IF d.r < n THEN d ELSE randbelow(d.rng, n)

gradients ==
  << <<1, 0>>, <<-1, 0>>, <<0, 1>>, <<0, -1>>,
     <<1, 1>>, <<1, -1>>, <<-1, 1>>, <<-1, -1>> >>

\* The seed of corner (ix, iy).
local_seed(ix, iy, rseed) == rseed + ix * MixX + iy * MixY

\* The dot product of gradient vector number r with the distance from the
\* corner; x, y in units of 1/CoordDen, and so is the result.
grad_dot(r, ix, iy, x, y) ==
  LET grad_vec == gradients[r + 1]
      dx == x - ix * CoordDen
      dy == y - iy * CoordDen
  IN grad_vec[1] * dx + grad_vec[2] * dy

\* The mutant of gradient that draws from the state it finds.
gradient_no_reseed(rng, ix, iy, x, y, rseed) ==
  LET d == randbelow(rng, NGradients)
  IN [rng |-> d.rng, val |-> grad_dot(d.r, ix, iy, x, y)]

\* gradient(ix, iy, x, y, random_seed), run alone, entered with generator
\* state rng: the value returned and the state left behind.
gradient(rng, ix, iy, x, y, rseed) ==
  LET seeded == random_seed(local_seed(ix, iy, rseed))
      d == randbelow(seeded, NGradients)
  IN [rng |-> d.rng, val |-> grad_dot(d.r, ix, iy, x, y)]

\* The corner looked up as n0, n1, n2, n3.
corner(k, x0, y0) == <<x0 + (k % 2), y0 + (k \div 2)>>

\* One octave of one pixel (lines 84-112), the four corner lookups made in
\* the order `order` (the program's is <<0, 1, 2, 3>>): the interpolated
\* value over OctDen and the generator state left behind.
octave_noise(rng, x, y, i, sc, rseed, order) ==
  LET frequency == Lacunarity ^ i
      sample_x == (x * (CoordDen \div sc)) * frequency
      sample_y == (y * (CoordDen \div sc)) * frequency
      x0 == sample_x \div CoordDen
      y0 == sample_y \div CoordDen
      sx == fade(sample_x - x0 * CoordDen)
      sy == fade(sample_y - y0 * CoordDen)
      at(k) == corner(order[k] , x0, y0)
      c1 == gradient(rng, at(1)[1], at(1)[2], sample_x, sample_y, rseed)
      c2 == gradient(c1.rng, at(2)[1], at(2)[2], sample_x, sample_y, rseed)
      c3 == gradient(c2.rng, at(3)[1], at(3)[2], sample_x, sample_y, rseed)
      c4 == gradient(c3.rng, at(4)[1], at(4)[2], sample_x, sample_y, rseed)
      n(k) == IF order[1] = k THEN c1.val
              ELSE IF order[2] = k THEN c2.val
              ELSE IF order[3] = k THEN c3.val
              ELSE c4.val
      ix0 == lerp(n(0), n(1), sx, FadeDen)
      ix1 == lerp(n(2), n(3), sx, FadeDen)
  IN [rng |-> c4.rng, val |-> lerp(ix0, ix1, sy, FadeDen)]

\* Denominator of a raw cell of a call with `octaves` octaves.
RawDen(n) == OctDen * PersDen ^ (IF n > 0 THEN n ELSE 0)

\* The octave loop of one pixel (lines 81-112) from octave i on, with the
\* sum so far: the accumulated value over RawDen(octaves) and the state
\* left behind.
RECURSIVE octave_loop(_, _, _, _, _, _, _, _, _)
octave_loop(rng, x, y, i, n, sc, rseed, order, noise_value) ==
  IF i >= n THEN [rng |-> rng, val |-> noise_value]
  ELSE LET o == octave_noise(rng, x, y, i, sc, rseed, order)
           amplitude == PersNum ^ i * PersDen ^ (n - i)
       IN octave_loop(o.rng, x, y, i + 1, n, sc, rseed, order,
                      noise_value + o.val * amplitude)

\* ------------------------------------------------------------------- state
VARIABLES
  pc,            \* where the current call stands
  call,          \* the arguments of the current call
  noise_map,     \* noise_map[y][x], a cell <<numerator, denominator>>
  y, x,          \* the pixel loops' indices (lines 79-80)
  min_val,       \* line 119, a numerator over RawDen
  max_val,       \* line 120
  terrain_tiles, \* line 155
  response,      \* what the call handed back
  err,           \* the exception that ended the call
  rng,           \* the state of the module-level generator of `random`
  written,       \* history: the cells assigned at line 115
  rescaled,      \* history: lines 121-125 have run in this call
  ncalls,        \* history: the calls started so far
  permuted,      \* history: a pixel or a corner was taken out of the program's order
  th             \* the concurrent callers of gradient

vars == <<pc, call, noise_map, y, x, min_val, max_val, terrain_tiles,
          response, err, rng, written, rescaled, ncalls, permuted, th>>

gen_vars == <<pc, call, noise_map, y, x, min_val, max_val, terrain_tiles,
              response, err, written, rescaled, ncalls, permuted>>

Threads == {1, 2}

Dims == -1 .. MaxSize
OctaveCounts == 0 .. MaxOctaves
Seeds == 0 .. MaxSeed

\* The arguments of a call, <<width, height, octaves, scale, seed, size, via>>:
\* size is the route's query parameter, via tells the route from a direct
\* call of generate_perlin_noise.
NoCall == <<0, 0, 0, 0, 0, 0, "none">>
width == call[1]
height == call[2]
octaves == call[3]
scale == call[4]
seed == call[5]
size == call[6]
via == call[7]

\* The response, <<size, tiles>>.
NoResponse == <<0, <<>>>>
NoMap == [r \in {} |-> <<>>]

\* A caller of gradient, <<pc, ix, iy, x, y, random_seed, returned value>>.
IdleThread == <<"idle", 0, 0, 0, 0, 0, 0>>

\* The generator of `random` is seeded from the system's entropy at import.
Init ==
  /\ pc = "idle"
  /\ call = NoCall
  /\ noise_map = NoMap
  /\ y = 0
  /\ x = 0
  /\ min_val = 0
  /\ max_val = 0
  /\ terrain_tiles = <<>>
  /\ response = NoResponse
  /\ err = "none"
  /\ rng \in 0 .. RngMod - 1
  /\ written = {}
  /\ rescaled = FALSE
  /\ ncalls = 0
  /\ permuted = FALSE
  /\ th = [t \in Threads |-> IdleThread]

Pixels == (0 .. height - 1) \X (0 .. width - 1)

\* np.zeros((height, width))
zeros(h, w, den) ==
  [r \in 0 .. h - 1 |-> [c \in 0 .. w - 1 |-> <<0, den>>]]

\* A call begins: every local is fresh, the generator is as it was left.
Begin(c, first) ==
  /\ pc = "idle"
  /\ ncalls < MaxCalls
  /\ ncalls' = ncalls + 1
  /\ call' = c
  /\ pc' = first
  /\ UNCHANGED <<noise_map, y, x, min_val, max_val, terrain_tiles, response,
                 err, rng, written, rescaled, permuted, th>>

\* GET /generate_world?seed=..&size=.. (lines 136-150).
generate_world(sd, sz) ==
  Begin(<<sz, sz, RouteOctaves, RouteScale, sd, sz, "route">>, "alloc")

\* generate_perlin_noise(width, height, octaves, scale=scale, seed=seed),
\* its field classified by the loop of lines 155-165.
generate_perlin_noise(w, h, o, sc, sd) ==
  Begin(<<w, h, o, sc, sd, w, "direct">>, "alloc")

Raise(e) ==
  /\ pc' = "error"
  /\ err' = e

\* The mutant of map_shape with the dimensions swapped.
map_shape_swapped == <<width, height>>

\* The shape np.zeros is given at line 67.
map_shape == <<height, width>>

\* Lines 67-76: np.zeros raises ValueError on a negative dimension.  `loop`
\* is where the pixel loops start.
AllocTo(loop) ==
  /\ pc = "alloc"
  /\ IF height < 0 \/ width < 0
       THEN /\ Raise("ValueError")
            /\ UNCHANGED <<noise_map, y>>
       ELSE /\ noise_map' = zeros(map_shape[1], map_shape[2], RawDen(octaves))
            /\ y' = 0
            /\ pc' = loop
            /\ err' = err
  /\ UNCHANGED <<call, x, min_val, max_val, terrain_tiles, response, rng,
                 written, rescaled, ncalls, permuted, th>>

Alloc == AllocTo("rows")

\* The mutant of rows_left that leaves the loop one row early.
rows_left_early == y < height - 1

\* Whether `for y in range(height)` has another iteration.
rows_left == y < height

\* Line 79.
RowLoop ==
  /\ pc = "rows"
  /\ IF rows_left
       THEN /\ x' = 0
            /\ pc' = "cols"
       ELSE /\ x' = x
            /\ pc' = "minmax"
  /\ UNCHANGED <<call, noise_map, y, min_val, max_val, terrain_tiles,
                 response, err, rng, written, rescaled, ncalls, permuted, th>>

\* The program's order of the four corner lookups (lines 102-105).
CodeOrder == <<0, 1, 2, 3>>

\* Lines 81-115 for the pixel (px, py): x / scale raises ZeroDivisionError
\* in the first octave when scale is 0.
PixelBody(px, py, order) ==
  IF octaves >= 1 /\ scale = 0
    THEN /\ Raise("ZeroDivisionError")
         /\ UNCHANGED <<noise_map, rng, written>>
    ELSE LET p == octave_loop(rng, px, py, 0, octaves, scale,
                              seed, order, 0)
         IN /\ noise_map' = [noise_map EXCEPT
                               ![py][px] = <<p.val, RawDen(octaves)>>]
            /\ rng' = p.rng
            /\ written' = written \cup {<<py, px>>}
            /\ pc' = pc
            /\ err' = err

\* Line 80, one iteration.
Pixel ==
  /\ pc = "cols"
  /\ x < width
  /\ PixelBody(x, y, CodeOrder)
  /\ x' = x + 1
  /\ UNCHANGED <<call, y, min_val, max_val, terrain_tiles, response,
                 rescaled, ncalls, permuted, th>>

\* Line 80, the row is finished.
RowEnd ==
  /\ pc = "cols"
  /\ x >= width
  /\ y' = y + 1
  /\ pc' = "rows"
  /\ UNCHANGED <<call, noise_map, x, min_val, max_val, terrain_tiles,
                 response, err, rng, written, rescaled, ncalls, permuted, th>>

CellNums == {noise_map[p[1]][p[2]][1] : p \in Pixels}

np_min(S) == CHOOSE v \in S : \A w \in S : v <= w
np_max(S) == CHOOSE v \in S : \A w \in S : v >= w

\* Lines 119-120: np.min raises ValueError on an array with no element.
MinMax ==
  /\ pc = "minmax"
  /\ IF Pixels = {}
       THEN /\ Raise("ValueError")
            /\ UNCHANGED <<min_val, max_val>>
       ELSE /\ min_val' = np_min(CellNums)
            /\ max_val' = np_max(CellNums)
            /\ pc' = "rescale"
            /\ err' = err
  /\ UNCHANGED <<call, noise_map, y, x, terrain_tiles, response, rng,
                 written, rescaled, ncalls, permuted, th>>

\* The value filled into a flat field (line 125).
FlatValue == <<1, 2>>

\* The mutant of rescale_cell that does not subtract the minimum.
rescale_cell_no_sub(cell, lo, hi) ==
  IF hi - lo > 0 THEN <<cell[1], hi - lo>> ELSE FlatValue

\* The mutant of rescale_cell without the guard of line 121: 0 / 0.
rescale_cell_no_guard(cell, lo, hi) == <<cell[1] - lo, hi - lo>>

\* The mutant of rescale_cell that divides by the maximum.
rescale_cell_by_max(cell, lo, hi) ==
  IF hi - lo > 0 THEN <<cell[1] - lo, hi>> ELSE FlatValue

\* Lines 121-125 for one cell.
rescale_cell(cell, lo, hi) ==
  IF hi - lo > 0 THEN <<cell[1] - lo, hi - lo>> ELSE FlatValue

\* Lines 121-127.
Rescale ==
  /\ pc = "rescale"
  /\ noise_map' = [r \in DOMAIN noise_map |->
                     [c \in DOMAIN noise_map[r] |->
                        rescale_cell(noise_map[r][c], min_val, max_val)]]
  /\ rescaled' = TRUE
  /\ pc' = "classify"
  /\ UNCHANGED <<call, y, x, min_val, max_val, terrain_tiles, response, err,
                 rng, written, ncalls, permuted, th>>

\* cell < p / q
Lt(cell, p, q) == cell[1] * q < p * cell[2]

\* cell <= p / q
Le(cell, p, q) == cell[1] * q <= p * cell[2]

\* The mutant of classify that compares with <=.
classify_le(noise_val) ==
  IF Le(noise_val, 2, 5) THEN 0
  ELSE IF Le(noise_val, 7, 10) THEN 1
  ELSE 2

\* Lines 159-164: 0.4 is 2/5 and 0.7 is 7/10.
classify(noise_val) ==
  IF Lt(noise_val, 2, 5) THEN 0
  ELSE IF Lt(noise_val, 7, 10) THEN 1
  ELSE 2

\* Lines 156-165, one row of noise_map.
ClassifyRow ==
  /\ pc = "classify"
  /\ Len(terrain_tiles) < Cardinality(DOMAIN noise_map)
  /\ LET row == noise_map[Len(terrain_tiles)]
     IN terrain_tiles' = Append(terrain_tiles,
                           [c \in 1 .. Cardinality(DOMAIN row) |->
                              classify(row[c - 1])])
  /\ UNCHANGED <<pc, call, noise_map, y, x, min_val, max_val, response, err,
                 rng, written, rescaled, ncalls, permuted, th>>

\* Line 168.
Respond ==
  /\ pc = "classify"
  /\ Len(terrain_tiles) = Cardinality(DOMAIN noise_map)
  /\ response' = <<size, terrain_tiles>>
  /\ pc' = "done"
  /\ UNCHANGED <<call, noise_map, y, x, min_val, max_val, terrain_tiles, err,
                 rng, written, rescaled, ncalls, permuted, th>>

\* The call is over; nothing of it is kept but the generator's state.
Finish ==
  /\ pc \in {"done", "error"}
  /\ pc' = "idle"
  /\ call' = NoCall
  /\ noise_map' = NoMap
  /\ y' = 0
  /\ x' = 0
  /\ min_val' = 0
  /\ max_val' = 0
  /\ terrain_tiles' = <<>>
  /\ response' = NoResponse
  /\ err' = "none"
  /\ written' = {}
  /\ rescaled' = FALSE
  /\ UNCHANGED <<rng, ncalls, permuted, th>>

Next ==
  \/ \E sd \in Seeds, sz \in Dims : generate_world(sd, sz)
  \/ \E w \in Dims, h \in Dims, o \in OctaveCounts, sc \in Scales, sd \in Seeds :
       generate_perlin_noise(w, h, o, sc, sd)
  \/ Alloc
  \/ RowLoop
  \/ Pixel
  \/ RowEnd
  \/ MinMax
  \/ Rescale
  \/ ClassifyRow
  \/ Respond
  \/ Finish

\* Calls of the route and of generate_perlin_noise, one after another.
Spec == Init /\ [][Next]_vars

\* ------------------------------------------- the pixels taken in any order
\* The shapes and arguments of the runs whose pixels are taken in any order.
AnyShapes ==
  {s \in (1 .. AnyMaxCells) \X (1 .. AnyMaxCells) : s[1] * s[2] <= AnyMaxCells}

\* The scales of these runs: those at which a field is not flat.
AnyScales == {2, CoordDen}

\* The orders in which the four corners of a cell can be looked up.
CornerOrders ==
  {o \in [1 .. 4 -> 0 .. 3] : \A i, j \in 1 .. 4 : o[i] = o[j] => i = j}

\* The pixel the loops of lines 79-80 would take next.
row_major_next ==
  CHOOSE p \in Pixels \ written :
    \A q \in Pixels \ written : p[1] < q[1] \/ (p[1] = q[1] /\ p[2] <= q[2])

generate_any_order(w, h, o, sc, sd) ==
  /\ ncalls = 0
  /\ Begin(<<w, h, o, sc, sd, w, "direct">>, "alloc")

AllocAny == AllocTo("accum")

\* Lines 81-115 for a pixel not yet computed, its corners looked up in
\* `order`.
PixelAny(p, order) ==
  /\ pc = "accum"
  /\ p \in Pixels \ written
  /\ PixelBody(p[2], p[1], order)
  /\ permuted' = (permuted \/ p # row_major_next \/ order # CodeOrder)
  /\ UNCHANGED <<call, y, x, min_val, max_val, terrain_tiles, response,
                 rescaled, ncalls, th>>

\* Every pixel has its value: the barrier before lines 119-120.
AccumDone ==
  /\ pc = "accum"
  /\ written = Pixels
  /\ pc' = "minmax"
  /\ UNCHANGED <<call, noise_map, y, x, min_val, max_val, terrain_tiles,
                 response, err, rng, written, rescaled, ncalls, permuted, th>>

NextAnyOrder ==
  \/ \E s \in AnyShapes, o \in 1 .. MaxOctaves, sc \in AnyScales,
        sd \in Seeds :
       generate_any_order(s[2], s[1], o, sc, sd)
  \/ AllocAny
  \/ \E p \in Pixels, order \in CornerOrders : PixelAny(p, order)
  \/ AccumDone
  \/ MinMax
  \/ Rescale
  \/ ClassifyRow
  \/ Respond

\* One valid call, the pixels and the corners of each cell in any order.
SpecAnyOrder == Init /\ [][NextAnyOrder]_vars

\* ------------------------------- normalization and classification alone
FieldShapes ==
  {s \in (1 .. FieldMaxCells) \X (1 .. FieldMaxCells) :
     s[1] * s[2] <= FieldMaxCells}

\* The raw fields of shape s with numerators in 0 .. FieldMaxRaw.
RawFields(s) ==
  [0 .. s[1] - 1 -> [0 .. s[2] - 1 -> {<<k, RawDen(1)>> : k \in 0 .. FieldMaxRaw}]]

\* The state at line 119 of a call whose accumulation left the field f.
InitField ==
  /\ \E s \in FieldShapes :
       /\ call = <<s[2], s[1], 1, CoordDen, 0, s[2], "direct">>
       /\ noise_map \in RawFields(s)
       /\ written = (0 .. s[1] - 1) \X (0 .. s[2] - 1)
       /\ y = s[1]
  /\ pc = "minmax"
  /\ x = 0
  /\ min_val = 0
  /\ max_val = 0
  /\ terrain_tiles = <<>>
  /\ response = NoResponse
  /\ err = "none"
  /\ rng = 0
  /\ rescaled = FALSE
  /\ ncalls = 1
  /\ permuted = FALSE
  /\ th = [t \in Threads |-> IdleThread]

NextField ==
  \/ MinMax
  \/ Rescale
  \/ ClassifyRow
  \/ Respond

\* Lines 119-127 and 155-168 as a function of the raw field.
SpecField == InitField /\ [][NextField]_vars

\* ------------------------------------------- concurrent calls of gradient
\* The sample points of the concurrent calls, in units of 1/CoordDen.
ConcSamples == {<<1, 2>>, <<3, 1>>}

\* gradient(ix, iy, x, y, random_seed) is entered by caller t.
Enter(t, ix, iy, sx, sy, sd) ==
  /\ th[t][1] = "idle"
  /\ th' = [th EXCEPT ![t] = <<"entered", ix, iy, sx, sy, sd, 0>>]
  /\ UNCHANGED <<gen_vars, rng>>

\* Line 26.
SeedStep(t) ==
  /\ th[t][1] = "entered"
  /\ rng' = random_seed(local_seed(th[t][2], th[t][3], th[t][6]))
  /\ th' = [th EXCEPT ![t][1] = "seeded"]
  /\ UNCHANGED gen_vars

\* Lines 37-44.
DrawStep(t) ==
  /\ th[t][1] = "seeded"
  /\ LET d == randbelow(rng, NGradients)
     IN /\ rng' = d.rng
        /\ th' = [th EXCEPT ![t][1] = "returned",
                            ![t][7] = grad_dot(d.r, th[t][2], th[t][3],
                                               th[t][4], th[t][5])]
  /\ UNCHANGED gen_vars

NextConc ==
  \/ \E t \in Threads, ix \in 0 .. 1, iy \in 0 .. 1, s \in ConcSamples,
        sd \in Seeds :
       Enter(t, ix, iy, s[1], s[2], sd)
  \/ \E t \in Threads : SeedStep(t)
  \/ \E t \in Threads : DrawStep(t)

\* Two callers of gradient whose steps interleave.
SpecConc == Init /\ [][NextConc]_vars

\* ------------------------------------------------------------------ claims
\* The gradient vector of corner (ix, iy) as a function of the corner and
\* the seed alone: the first draw of a generator seeded for that corner.
ref_index(ix, iy, sd) ==
  randbelow(random_seed(local_seed(ix, iy, sd)), NGradients).r

\* One octave of pixel (px, py) over OctDen, every corner with ref_index.
ref_octave(px, py, i, sc, sd) ==
  LET frequency == Lacunarity ^ i
      sample_x == (px * (CoordDen \div sc)) * frequency
      sample_y == (py * (CoordDen \div sc)) * frequency
      x0 == sample_x \div CoordDen
      y0 == sample_y \div CoordDen
      sx == fade(sample_x - x0 * CoordDen)
      sy == fade(sample_y - y0 * CoordDen)
      n(k) == LET cr == corner(k, x0, y0)
              IN grad_dot(ref_index(cr[1], cr[2], sd), cr[1], cr[2],
                          sample_x, sample_y)
  IN (n(0) * FadeDen + sx * (n(1) - n(0))) * FadeDen
       + sy * ((n(2) * FadeDen + sx * (n(3) - n(2)))
                 - (n(0) * FadeDen + sx * (n(1) - n(0))))

\* The raw value of pixel (px, py) over RawDen(n): octaves i .. n - 1.
RECURSIVE ref_pixel(_, _, _, _, _, _)
ref_pixel(px, py, i, n, sc, sd) ==
  IF i >= n THEN 0
  ELSE ref_octave(px, py, i, sc, sd) * PersNum ^ i * PersDen ^ (n - i)
         + ref_pixel(px, py, i + 1, n, sc, sd)

\* The tile grid of a call as a function of its arguments alone.
ref_tiles(w, h, n, sc, sd) ==
  LET raw == [r \in 0 .. h - 1 |-> [c \in 0 .. w - 1 |->
                ref_pixel(c, r, 0, n, sc, sd)]]
      nums == {raw[r][c] : r \in 0 .. h - 1, c \in 0 .. w - 1}
      lo == CHOOSE v \in nums : \A u \in nums : v <= u
      hi == CHOOSE v \in nums : \A u \in nums : v >= u
      tile(v) == IF hi = lo THEN 1
                 ELSE IF 5 * (v - lo) < 2 * (hi - lo) THEN 0
                 ELSE IF 10 * (v - lo) < 7 * (hi - lo) THEN 1
                 ELSE 2
  IN [r \in 1 .. h |-> [c \in 1 .. w |-> tile(raw[r - 1][c - 1])]]

Cell(p) == noise_map[p[1]][p[2]]
TileCodes ==
  {response[2][r][c] : r \in 1 .. Len(response[2]), c \in 1 .. width}
MinMaxRead == pc \in {"rescale", "classify", "done"}

\* C1: a call with width <= 0, height <= 0, octaves < 1 or scale = 0 is
\* rejected: it computes no pixel, normalizes and classifies nothing and
\* hands back no grid.
C1_InvalidRejected ==
  (via # "none" /\ (width <= 0 \/ height <= 0 \/ octaves < 1 \/ scale = 0))
    => /\ written = {}
       /\ ~rescaled
       /\ terrain_tiles = <<>>
       /\ pc # "done"

\* C2: the grid a call hands back is a function of its arguments alone,
\* whatever calls ran before it and whatever state they left the generator
\* in; so two calls with the same arguments hand back the same grid.
C2_Determinism ==
  pc = "done" => response[2] = ref_tiles(width, height, octaves, scale, seed)

\* C2 witness: a second call of a run has handed back a grid that is not flat.
C2_Witness == pc = "done" /\ ncalls >= 2 /\ max_val > min_val

\* C3: a call of gradient that runs while another one does returns what it
\* returns when it runs alone.
C3_ConcurrentSafe ==
  \A t \in Threads :
    th[t][1] = "returned"
      => th[t][7] = gradient(0, th[t][2], th[t][3], th[t][4], th[t][5],
                             th[t][6]).val

\* C4: for width > 0 and height > 0 the field has height rows of width
\* cells from line 67 on, the grid handed back has height rows of width
\* codes, each 0, 1 or 2, and the size handed back is the size asked for.
C4_Shape ==
  (width > 0 /\ height > 0)
    => /\ pc \in {"rows", "cols", "minmax", "rescale", "classify", "done"}
            => /\ DOMAIN noise_map = 0 .. height - 1
               /\ \A r \in DOMAIN noise_map :
                    DOMAIN noise_map[r] = 0 .. width - 1
       /\ pc = "done"
            => /\ Len(response[2]) = height
               /\ \A r \in 1 .. Len(response[2]) :
                    /\ Len(response[2][r]) = width
                    /\ \A c \in 1 .. Len(response[2][r]) :
                         response[2][r][c] \in {0, 1, 2}
               /\ response[1] = size
               /\ via = "route" => (width = size /\ height = size)

\* C4 witness: the route has answered a request for a grid of several cells.
C4_Witness == pc = "done" /\ via = "route" /\ size >= 2

\* C5: the code of a classified cell is 0 exactly when its normalized value
\* is below 0.4, 1 exactly when it is at least 0.4 and below 0.7, and 2
\* exactly when it is at least 0.7.
C5_ThresholdPartition ==
  \A r \in 1 .. Len(terrain_tiles) : \A c \in 1 .. width :
    LET v == noise_map[r - 1][c - 1]
        t == terrain_tiles[r][c]
    IN /\ t = 0 <=> 5 * v[1] < 2 * v[2]
       /\ t = 1 <=> (5 * v[1] >= 2 * v[2] /\ 10 * v[1] < 7 * v[2])
       /\ t = 2 <=> 10 * v[1] >= 7 * v[2]

\* C5 witness: a grid is handed back with a cell at exactly 0.4 coded 1 and
\* a cell at exactly 0.7 coded 2.
C5_Witness ==
  /\ pc = "done"
  /\ \E p \in Pixels : /\ 5 * Cell(p)[1] = 2 * Cell(p)[2]
                       /\ terrain_tiles[p[1] + 1][p[2] + 1] = 1
  /\ \E p \in Pixels : /\ 10 * Cell(p)[1] = 7 * Cell(p)[2]
                       /\ terrain_tiles[p[1] + 1][p[2] + 1] = 2

\* C6: after the rescale every cell lies in [0, 1]; if the raw field was
\* not flat some cell is 0 and some cell is 1, the cells at 0 being those
\* that held the raw minimum and the cells at 1 those that held the raw
\* maximum; if it was flat every cell is 0.5.
C6_NormalizationRange ==
  rescaled
    => /\ \A p \in Pixels :
            Cell(p)[2] > 0 /\ 0 <= Cell(p)[1] /\ Cell(p)[1] <= Cell(p)[2]
       /\ max_val > min_val
            => /\ \E p \in Pixels : Cell(p)[1] = 0
               /\ \E p \in Pixels : Cell(p)[1] = Cell(p)[2]
       /\ max_val > min_val
            => \A p \in Pixels :
                 LET raw == ref_pixel(p[2], p[1], 0, octaves, scale, seed)
                 IN /\ Cell(p)[1] = 0 <=> raw = min_val
                    /\ Cell(p)[1] = Cell(p)[2] <=> raw = max_val
       /\ max_val = min_val
            => \A p \in Pixels : 2 * Cell(p)[1] = Cell(p)[2]

\* C6 witness: a field whose raw minimum is not 0 has been rescaled.
C6_Witness == rescaled /\ max_val > min_val /\ min_val # 0

\* C7: a 1x1 field is always flat, and a valid 1x1 call raises nothing;
\* nothing is raised once the minimum and maximum are read; a flat field
\* is rescaled to 0.5 in every cell and classified 1 in every cell; width =
\* height = octaves = 1 with seed 0 hands back [[1]].
C7_FlatField ==
  /\ (MinMaxRead /\ width = 1 /\ height = 1) => max_val = min_val
  /\ (width = 1 /\ height = 1 /\ octaves >= 1 /\ scale # 0) => pc # "error"
  /\ MinMaxRead => err = "none"
  /\ (rescaled /\ max_val = min_val)
       => /\ \A p \in Pixels : Cell(p)[2] > 0 /\ 2 * Cell(p)[1] = Cell(p)[2]
          /\ \A r \in 1 .. Len(terrain_tiles) : \A c \in 1 .. width :
               terrain_tiles[r][c] = 1
  /\ (pc = "done" /\ width = 1 /\ height = 1 /\ octaves = 1 /\ seed = 0)
       => response[2] = << <<1>> >>

\* C7 witness: a flat field of several cells, accumulated over at least one
\* octave, has been handed back.
C7_Witness ==
  /\ pc = "done"
  /\ max_val = min_val
  /\ Cardinality(Pixels) > 1
  /\ octaves >= 1

\* C8: with the pixels taken in any order, and the four corners of a cell
\* looked up in any order, every raw cell is the value that depends on the
\* pixel and the arguments alone, and so is the grid handed back.
C8_OrderIndependent ==
  /\ ~rescaled
       => \A p \in written :
            Cell(p)[1] = ref_pixel(p[2], p[1], 0, octaves, scale, seed)
  /\ pc = "done"
       => response[2] = ref_tiles(width, height, octaves, scale, seed)

\* C8 witness: a grid that is not flat is handed back by a run that left
\* the program's order.
C8_Witness == pc = "done" /\ permuted /\ max_val > min_val

C9_Order ==
  /\ MinMaxRead => written = Pixels
  /\ rescaled => pc \in {"classify", "done"}
  /\ terrain_tiles # <<>> => rescaled

C9_Step ==
  /\ (MinMaxRead /\ pc' # "idle")
       => /\ written' = written
          /\ noise_map' = noise_map \/ (pc = "rescale" /\ rescaled')
          /\ min_val' = min_val
          /\ max_val' = max_val
  /\ (min_val' # min_val \/ max_val' # max_val)
       => (pc' = "idle" \/ (pc = "minmax" /\ written = Pixels))

\* C9: the minimum and maximum are read only when every pixel has its
\* value, the rescale runs only after they are read, no cell is written
\* after they are read except by the rescale, and only rescaled cells are
\* classified.
C9_Barrier == []C9_Order /\ [][C9_Step]_vars

\* C9 witness: the minimum and maximum of a field of several cells that is
\* not flat have been read.
C9_Witness == pc = "rescale" /\ Cardinality(Pixels) > 1 /\ max_val > min_val

\* C10: a grid handed back for a field that was not flat has a cell coded 0
\* and a cell coded 2; a grid of 1s alone comes from a flat field only; no
\* grid is all 0 or all 2.
C10_WaterAndMountain ==
  pc = "done"
    => /\ max_val > min_val => (0 \in TileCodes /\ 2 \in TileCodes)
       /\ TileCodes = {1} => max_val = min_val
       /\ TileCodes # {0}
       /\ TileCodes # {2}

\* C10 witness: a grid with all three codes has been handed back.
C10_Witness == pc = "done" /\ TileCodes = {0, 1, 2}
====
